---- MODULE Spec2Model ----
(***************************************************************************)
(* Low-altitude aircraft monitor (monitor.py): one invocation of main      *)
(* runs one fetch / filter / decide / notify / persist cycle per           *)
(* monitoring point, with a quiet period per (point, aircraft) kept in     *)
(* state.json.                                                             *)
(*                                                                         *)
(* Units.  Time is in whole seconds.  Distances are in tenths of a         *)
(* kilometre.  Altitude fields are in units of 1/381 ft, so that the       *)
(* metre value 0.3048 * ft is an exact whole number of tenths of a         *)
(* millimetre (0.3048 / 381 = 0.0008 m) and the threshold 2000.0 m can be  *)
(* hit exactly.  Latitudes are in units of the arc of 0.1 km, and every    *)
(* snapshot that has a longitude lies on the meridian of the centre.       *)
(***************************************************************************)
EXTENDS Integers, Sequences, FiniteSets, TLC

VARIABLES
    locations,   \* LOCATIONS: the configured monitoring points, in order
    file,        \* the contents of STATE_FILE on disk
    now,         \* the wall clock in seconds, as the current run reads it
    pc,          \* position of main / run_once_for
    loc,         \* index in locations of the point being processed
    state,       \* run_once_for's local: the loaded AlertState
    aircraft,    \* run_once_for's local: the fetched snapshots
    eligible,    \* run_once_for's local: the (dist_km, alt_m, ac) triples
    idx,         \* position of the decide loop in eligible
    alerted,     \* run_once_for's local counter of individual alerts
    sent,        \* the calls of send_telegram made by the current run
    saved,       \* outcome of the current run's save_state ("none" before it)
    invocations, \* how many times main has been started
    alertLog,    \* history: per scoped key, the times of its individual alerts
    failLog,     \* history: the (scoped key, time) of the alerts not delivered
    saveFailed,  \* history: some save_state so far did not write the file
    caught,      \* main: the points whose exception its except clause caught,
                 \* in the current invocation
    fetchLog     \* the providers' answers to the current run's fetch_aircraft
                 \* and what it made of them (<<>> when not recorded)

vars == <<locations, file, now, pc, loc, state, aircraft, eligible, idx,
          alerted, sent, saved, invocations, alertLog, failLog, saveFailed,
          caught, fetchLog>>

----------------------------------------------------------------------------
(* Bounds of the model *)

MaxInvocations == 2
MaxAircraft == 2
MaxSummaryAircraft == 8

----------------------------------------------------------------------------
(* Program constants *)

RADIUS_KM == 40
ALT_THRESHOLD_M == 2000
QUIET_MINUTES == 10
SummaryLimit == 6

\* RADIUS_KM + 0.5, in tenths of a kilometre
RadiusLimit == RADIUS_KM * 10 + 5
\* ALT_THRESHOLD_M, in tenths of a millimetre
AltLimit == ALT_THRESHOLD_M * 10000
\* timedelta(minutes=QUIET_MINUTES), in seconds
quiet == QUIET_MINUTES * 60

\* (name, lat) of the points a configuration may list
CenterLat(place) == IF place = "Isernia" THEN 0 ELSE 650
CenterLon(place) == 0

----------------------------------------------------------------------------
(* JSON values of a snapshot's numeric fields *)

Absent == [k |-> "absent", n |-> 0]
Num(x) == [k |-> "num", n |-> x]
Bool(x) == [k |-> "bool", n |-> x]
Text == [k |-> "text", n |-> 0]

\* isinstance(v, (int, float)): bool is a subclass of int
IsNumber(v) == v.k \in {"num", "bool"}

\* v is None: the key is missing from the snapshot, or holds JSON null
IsNone(v) == v.k = "absent"

Abs(x) == IF x < 0 THEN -x ELSE x

feet_to_m(ft) == ft * 8

\* On a shared meridian dlon = 0, so a = sin(dlat/2)^2 and the distance is
\* R * |dlat|: the arc between the two latitudes.
haversine_km(lat1, lon1, lat2, lon2) == Abs(lat2 - lat1)

----------------------------------------------------------------------------
(* Strings.  None and "" are both falsy and are both written "".  strip and *)
(* upper are tabulated on the strings the snapshots of the model carry.     *)

Or(a, b) == IF a # "" THEN a ELSE b

strip(s) ==
    CASE s = "RYR12   " -> "RYR12"
      [] s = " 4ca123" -> "4ca123"
      [] OTHER -> s

upper(s) ==
    CASE s = "4ca123" -> "4CA123"
      [] s = "unknown" -> "UNKNOWN"
      [] OTHER -> s

identify(ac) ==
    LET callsign == strip(Or(ac.call, ac.flight))
        reg == strip(ac.r)
        icao == strip(Or(ac.icao, ac.hex))
        label == Or(callsign,
                    Or(IF reg # "" THEN "(" \o reg \o ")" ELSE "",
                       Or(icao, "Sconosciuto")))
        key == upper(Or(icao, Or(callsign, Or(reg, "unknown"))))
    IN  <<label, key>>

\* Faulty variant: the geometric altitude is preferred
get_altitude_m_GeomFirst(ac) ==
    LET alt_ft == IF IsNumber(ac.alt_geom) THEN Num(ac.alt_geom.n)
                  ELSE IF IsNumber(ac.alt_baro) THEN Num(ac.alt_baro.n)
                  ELSE Absent
    IN  IF IsNone(alt_ft) THEN Absent ELSE Num(feet_to_m(alt_ft.n))

get_altitude_m(ac) ==
    LET alt_ft == IF IsNumber(ac.alt_baro) THEN Num(ac.alt_baro.n)
                  ELSE IF IsNumber(ac.alt_geom) THEN Num(ac.alt_geom.n)
                  ELSE Absent
    IN  IF IsNone(alt_ft) THEN Absent ELSE Num(feet_to_m(alt_ft.n))

----------------------------------------------------------------------------
(* run_once_for, step 1: the eligibility filter and the sort by distance *)

\* Faulty variant: the margin is exclusive
OutOfRange_Inclusive(dist_km) == dist_km >= RadiusLimit

OutOfRange(dist_km) == dist_km > RadiusLimit

TooHigh(alt_m) == IsNone(alt_m) \/ alt_m.n >= AltLimit

\* The loop body: the triple appended for ac, or no triple
FilterOne(ac, center_lat, center_lon) ==
    IF IsNone(ac.lat) \/ IsNone(ac.lon) THEN <<>>
    ELSE LET dist_km == haversine_km(center_lat, center_lon, ac.lat.n, ac.lon.n)
         IN  IF OutOfRange(dist_km) THEN <<>>
             ELSE LET alt_m == get_altitude_m(ac)
                  IN  IF TooHigh(alt_m) THEN <<>>
                      ELSE <<[dist_km |-> dist_km, alt_m |-> alt_m.n, ac |-> ac]>>

RECURSIVE FilterAll(_, _, _)
FilterAll(acs, center_lat, center_lon) ==
    IF acs = <<>> THEN <<>>
    ELSE FilterOne(Head(acs), center_lat, center_lon)
         \o FilterAll(Tail(acs), center_lat, center_lon)

\* list.sort(key=...) is stable: x goes after every entry whose key is <= its own
RECURSIVE InsertByDist(_, _)
InsertByDist(x, sorted) ==
    IF sorted = <<>> THEN <<x>>
    ELSE IF x.dist_km < Head(sorted).dist_km THEN <<x>> \o sorted
    ELSE <<Head(sorted)>> \o InsertByDist(x, Tail(sorted))

RECURSIVE SortFrom(_, _)
SortFrom(todo, sorted) ==
    IF todo = <<>> THEN sorted
    ELSE SortFrom(Tail(todo), InsertByDist(Head(todo), sorted))

\* Faulty variant: the list is left in feed order
SortByDist_None(triples) == triples

SortByDist(triples) == SortFrom(triples, <<>>)

EligibleList(acs, center_lat, center_lon) ==
    SortByDist(FilterAll(acs, center_lat, center_lon))

----------------------------------------------------------------------------
(* StateStore.  A datetime is a clock reading t with or without a UTC       *)
(* offset (aware, off seconds; off is 0 when there is none).  The file      *)
(* holds, per key, a JSON value: the text isoformat wrote, or anything      *)
(* else.                                                                    *)

Utc(t) == [t |-> t, aware |-> TRUE, off |-> 0]

\* The offset as isoformat prints it, and as fromisoformat reads it
OffsetText(off) == IF off = 0 THEN "+00:00" ELSE "+01:00"

OffsetSeconds(text) == IF text = "+01:00" THEN 3600 ELSE 0

\* An ISO-8601 text: the clock reading, then the offset or nothing
IsoText(t, offset) == [shape |-> "iso", t |-> t, offset |-> offset]

\* A text that is no ISO-8601 date, and a value that is no text at all
\* (a number, null, a list)
GarbageText == [shape |-> "garbage", t |-> 0, offset |-> ""]
NotText == [shape |-> "nottext", t |-> 0, offset |-> ""]

\* Faulty variant: the offset is not written
isoformat_Naive(dt) == IsoText(dt.t, "")

isoformat(dt) == IsoText(dt.t, IF dt.aware THEN OffsetText(dt.off) ELSE "")

\* datetime.fromisoformat raises on anything that is not ISO-8601 text
Parses(v) == v.shape = "iso"

fromisoformat(v) ==
    [t |-> v.t, aware |-> v.offset # "", off |-> OffsetSeconds(v.offset)]

NoEntries == <<>>

MissingFile == [kind |-> "missing", entries |-> NoEntries]
CorruptFile == [kind |-> "corrupt", entries |-> NoEntries]
\* A JSON document that is not an object: raw.items() raises
ArrayFile == [kind |-> "array", entries |-> NoEntries]
JsonFile(entries) == [kind |-> "json", entries |-> entries]

\* Faulty variant: one unparseable entry empties the whole state
load_state_AllOrNothing(f) ==
    IF f.kind # "json" THEN NoEntries
    ELSE IF \E x \in DOMAIN f.entries : ~Parses(f.entries[x]) THEN NoEntries
    ELSE [k \in DOMAIN f.entries |-> fromisoformat(f.entries[k])]

load_state(f) ==
    IF f.kind = "missing" THEN NoEntries
    ELSE IF f.kind = "corrupt" THEN NoEntries
    ELSE IF f.kind = "array" THEN NoEntries
    ELSE [k \in {x \in DOMAIN f.entries : Parses(f.entries[x])}
            |-> fromisoformat(f.entries[k])]

\* What json.dump writes for the state
Dumped(st) == JsonFile([k \in DOMAIN st |-> isoformat(st[k])])

\* open() fails: the file is untouched.  The write fails after open()
\* truncated the file: what is left is not a JSON document.
SaveResults == {"ok", "open_failed", "write_failed"}

save_state(f, st, res) ==
    CASE res = "ok" -> Dumped(st)
      [] res = "open_failed" -> f
      [] res = "write_failed" -> CorruptFile

----------------------------------------------------------------------------
(* send_telegram: it returns normally whatever happens to the deliveries.   *)
(* Without a bot token nothing is attempted; otherwise each recipient's     *)
(* delivery succeeds or fails on its own.                                   *)

Recipients == <<"1001", "5278987817">>

RecipientSet == {Recipients[j] : j \in 1..Len(Recipients)}

SendOutcomes ==
    {[configured |-> FALSE, failed |-> {}]}
    \cup {[configured |-> TRUE, failed |-> F] : F \in SUBSET RecipientSet}

\* Every delivery succeeded.  run_once_for reads nothing of what
\* send_telegram did, so the decisions of a run are the same under every
\* outcome.
AllDelivered == {[configured |-> TRUE, failed |-> {}]}

DeliveryFailed(o) == o.configured /\ o.failed # {}

\* _telegram_recipients: TELEGRAM_CHAT_ID when set, the fixed id, the extra
\* ids (split at the commas, stripped, the empty ones left out), without
\* repeats and in this order
RECURSIVE Dedup(_, _)
Dedup(chat_ids, seen) ==
    IF chat_ids = <<>> THEN <<>>
    ELSE IF Head(chat_ids) \in seen THEN Dedup(Tail(chat_ids), seen)
    ELSE <<Head(chat_ids)>> \o Dedup(Tail(chat_ids), seen \cup {Head(chat_ids)})

telegram_recipients(chat_id, extra) ==
    Dedup((IF chat_id # "" THEN <<chat_id>> ELSE <<>>) \o <<"5278987817">> \o extra, {})

\* What the requests of one recipient's turn do: all succeed ("ok"), the
\* primary message (photo or text, after its fallbacks) raises ("primary"),
\* or the primary message is sent and the links message raises ("links")
Behaviours == {"ok", "primary", "links"}

\* One turn of the loop: the try block up to the first request that raises
Attempt(cid, how) ==
    [cid |-> cid,
     primary |-> IF how = "primary" THEN "failed" ELSE "sent",
     links |-> CASE how = "primary" -> "skipped"
                 [] how = "links" -> "failed"
                 [] OTHER -> "sent"]

\* Faulty variant: the first exception ends the loop
RECURSIVE Deliveries_StopAtFailure(_, _)
Deliveries_StopAtFailure(chat_ids, how) ==
    IF chat_ids = <<>> THEN <<>>
    ELSE IF how[Head(chat_ids)] # "ok" THEN <<Attempt(Head(chat_ids), how[Head(chat_ids)])>>
    ELSE <<Attempt(Head(chat_ids), how[Head(chat_ids)])>>
         \o Deliveries_StopAtFailure(Tail(chat_ids), how)

\* for cid in chat_ids: try ... except Exception: print
RECURSIVE Deliveries(_, _)
Deliveries(chat_ids, how) ==
    IF chat_ids = <<>> THEN <<>>
    ELSE <<Attempt(Head(chat_ids), how[Head(chat_ids)])>>
         \o Deliveries(Tail(chat_ids), how)

\* send_telegram with or without a bot token, for the recipients of the
\* environment: what it did, recipient by recipient; it returns normally
send_telegram(token, chat_ids, how) ==
    IF ~token
    THEN [configured |-> FALSE, failed |-> {}, chat_ids |-> <<>>, attempts |-> <<>>]
    ELSE LET done == Deliveries(chat_ids, how)
         IN  [configured |-> TRUE,
              failed |-> {done[j].cid : j \in {i \in 1..Len(done) : done[i].links # "sent"}},
              chat_ids |-> chat_ids,
              attempts |-> done]

\* The environments: TELEGRAM_CHAT_ID unset, set, or set to the fixed id;
\* TELEGRAM_EXTRA_CHAT_IDS empty or naming two ids
ChatIds == {"", "1001", "5278987817"}

ExtraIds == {<<>>, <<"1001", "2002">>}

TelegramOutcomes ==
    {send_telegram(token, telegram_recipients(chat_id, extra), how) :
        token \in BOOLEAN, chat_id \in ChatIds, extra \in ExtraIds,
        how \in [{"1001", "2002", "5278987817"} -> Behaviours]}

----------------------------------------------------------------------------
(* run_once_for, step 2: the decide loop *)

\* Faulty variant: the key is not scoped to the point
scoped_key_Global(place, key) == key

scoped_key(place, key) == place \o ":" \o key

ScopedKeyOf(place, e) == scoped_key(place, identify(e.ac)[2])

\* now - last raises TypeError when one datetime has an offset and the
\* other has none
Raises(st, k, t) == k \in DOMAIN st /\ st[k].aware # t.aware

\* now - last, for two datetimes of the same kind: the seconds between
\* the two instants
Minus(a, b) == (a.t - a.off) - (b.t - b.off)

\* Faulty variant: the quiet period includes its last instant
Suppressed_InclusiveEnd(st, k, t) == k \in DOMAIN st /\ Minus(t, st[k]) <= quiet

\* Faulty variant: only a strictly earlier alert suppresses
Suppressed_OnlyEarlier(st, k, t) ==
    k \in DOMAIN st /\ Minus(t, st[k]) > 0 /\ Minus(t, st[k]) < quiet

Suppressed(st, k, t) == k \in DOMAIN st /\ Minus(t, st[k]) < quiet

\* Faulty variant: the timestamp is not recorded
RecordAlert_Dropped(st, k, t) == st

\* Faulty variant: the entries older than the quiet period are pruned
RecordAlert_Prunes(st, k, t) ==
    [x \in {y \in DOMAIN st : Minus(t, st[y]) < quiet} \cup {k} |->
        IF x = k THEN t ELSE st[x]]

\* state[scoped_key] = now
RecordAlert(st, k, t) ==
    [x \in DOMAIN st \cup {k} |-> IF x = k THEN t ELSE st[x]]

\* Faulty variant: the timestamp is recorded only when every delivery succeeded
StateAfterSend_OnSuccess(st, k, t, o) ==
    IF o.configured /\ o.failed # {}
    THEN st
    ELSE [x \in DOMAIN st \cup {k} |-> IF x = k THEN t ELSE st[x]]

\* send_telegram has returned with outcome o: the two statements after it
StateAfterSend(st, k, t, o) == RecordAlert(st, k, t)

AlertedAfterSend(n_alerted, o) == n_alerted + 1

----------------------------------------------------------------------------
(* run_once_for, step 3: the summary *)

Min(a, b) == IF a < b THEN a ELSE b

\* int(round(alt_m)): to the nearest metre, halves to the even one
RoundM(alt_m) ==
    LET q == alt_m \div 10000
        r == alt_m % 10000
    IN  IF 2 * r < 10000 THEN q
        ELSE IF 2 * r > 10000 THEN q + 1
        ELSE IF q % 2 = 0 THEN q ELSE q + 1

\* Faulty variant: the count of alerts is not looked at
SummaryDue_AnyEligible(n_alerted, elig) == Len(elig) > 0

\* Faulty variant: a single aircraft does not make a summary
SummaryDue_Several(n_alerted, elig) == n_alerted = 0 /\ Len(elig) > 1

SummaryDue(n_alerted, elig) == n_alerted = 0 /\ Len(elig) > 0

SummaryLine(e) ==
    [label |-> identify(e.ac)[1], dist_km |-> e.dist_km, alt_m |-> RoundM(e.alt_m)]

\* eligible[:6]
SummaryListed(elig) == SubSeq(elig, 1, Min(SummaryLimit, Len(elig)))

\* Faulty variant: the remainder line already at the limit
HasOthers_AtLimit(elig) == Len(elig) >= SummaryLimit

HasOthers(elig) == Len(elig) > SummaryLimit

SummaryText(elig) ==
    [count |-> Len(elig),
     lines |-> [j \in 1..Len(SummaryListed(elig)) |-> SummaryLine(SummaryListed(elig)[j])],
     hasOthers |-> HasOthers(elig),
     others |-> IF HasOthers(elig) THEN Len(elig) - SummaryLimit ELSE 0]

NearestOf(elig) == elig[1]

\* The text of an individual alert: place, who, distance, rounded altitude
format_msg(e, place) ==
    LET callsign == strip(Or(e.ac.call, e.ac.flight))
        reg == strip(e.ac.r)
        icao == strip(Or(e.ac.icao, e.ac.hex))
        who == Or(callsign \o (IF reg # "" THEN "(" \o reg \o ")" ELSE ""),
                  Or(icao, "ICAO?"))
    IN  [place |-> place, who |-> who, dist_km |-> e.dist_km, alt_m |-> RoundM(e.alt_m)]

\* The two kinds of call of send_telegram
AlertNote(k, e, place, o) ==
    [kind |-> "alert", key |-> k, about |-> e, text |-> format_msg(e, place),
     outcome |-> o]

SummaryNote(elig, o) ==
    [kind |-> "summary", key |-> "", about |-> NearestOf(elig),
     text |-> SummaryText(elig), outcome |-> o]

----------------------------------------------------------------------------
(* What the fetch collaborator may answer *)

Ac(lat, lon, alt_baro, alt_geom, hex, flight, r) ==
    [lat |-> lat, lon |-> lon, alt_baro |-> alt_baro, alt_geom |-> alt_geom,
     icao |-> "", hex |-> hex, call |-> "", flight |-> flight, r |-> r]

\* Altitudes are in units of 1/381 ft: 625000 is 500 m, 2500000 is 2000 m.
\* AcMid and AcNear are one aircraft (the hex differs in case only) and AcNear
\* reports "ground" as its barometric altitude; AcAnon and AcEdge have no
\* identity at all; AcHigh flies at the threshold exactly; AcEdge is on the
\* margin of the radius of Isernia, just under the threshold.
AcMid == Ac(Num(200), Num(0), Num(625000), Absent, "4ca123", "RYR12   ", "")
AcNear == Ac(Num(100), Num(0), Text, Num(625000), "4CA123", "", "I-ABCD")
AcAnon == Ac(Num(300), Num(0), Num(1250000), Absent, "", "", "")
AcHigh == Ac(Num(150), Num(0), Num(2500000), Absent, "", "RYR12", "")
AcEdge == Ac(Num(405), Num(0), Num(2499999), Absent, "", "", "")

Catalogue == {AcMid, AcNear, AcAnon, AcHigh}

\* The lists of at most n distinct snapshots of S
DistinctSeqs(S, n) ==
    UNION { { q \in [1..m -> S] : \A a, b \in 1..m : a # b => q[a] # q[b] }
            : m \in 0..n }

FetchResults == DistinctSeqs(Catalogue, MaxAircraft)

\* Feeds for the delivery outcomes: two aircraft
NotifyFeeds == DistinctSeqs({AcMid, AcAnon}, MaxAircraft)

\* Feeds for two points: AcAnon is within the radius of both, AcMid of
\* Isernia only
PointFeeds == {<<AcAnon>>, <<AcMid, AcAnon>>}

\* Feeds for the recipients: one aircraft, seen once or twice
TelegramFeeds == {<<AcMid>>, <<AcMid, AcNear>>}

\* Feeds for the summary: up to MaxSummaryAircraft snapshots, repeated
Rep(x, n) == [j \in 1..n |-> x]

SummaryFeeds ==
    { Rep(AcMid, a) \o Rep(AcAnon, b) \o Rep(AcNear, c) :
        <<a, b, c>> \in { t \in (0..MaxSummaryAircraft) \X (0..MaxSummaryAircraft)
                                 \X (0..MaxSummaryAircraft) :
                          t[1] + t[2] + t[3] <= MaxSummaryAircraft } }

\* Feeds for the filter: every combination of position and altitude fields
\* on its own, and the lists of the catalogue with AcEdge
FilterCatalogue ==
    { Ac(lat, lon, alt_baro, alt_geom, "4ca123", "", "") :
        lat \in {Absent, Num(200), Num(405), Num(406), Num(1055), Num(-405)},
        lon \in {Absent, Num(0)},
        alt_baro \in {Absent, Num(625000), Num(2499999), Num(2500000), Text, Bool(381)},
        alt_geom \in {Absent, Num(625000), Num(2500001), Text} }

FilterFeeds ==
    { <<a>> : a \in FilterCatalogue }
    \cup DistinctSeqs(Catalogue \cup {AcEdge}, MaxAircraft)

\* fetch_aircraft.  Each provider, when contacted, raises (the connection,
\* a timeout), answers with a status that is not 200, answers 200 with a
\* body that resp.json() or data.get rejects, or answers 200 with a list.
PROVIDERS == <<"https://api.adsb.one", "https://api.adsb.lol">>

Raised(base) == [kind |-> "raise", exc |-> "ConnectionError " \o base, ac |-> <<>>]
BadBody(base) == [kind |-> "badjson", exc |-> "ValueError " \o base, ac |-> <<>>]
NotOk == [kind |-> "status", exc |-> "", ac |-> <<>>]
Ok(acs) == [kind |-> "ok", exc |-> "", ac |-> acs]

\* The loop over PROVIDERS from the i-th on, last_exc being "" for None
RECURSIVE FetchFrom(_, _, _)
FetchFrom(answers, i, last_exc) ==
    IF i > Len(PROVIDERS)
    THEN [raised |-> last_exc # "", exc |-> last_exc, ac |-> <<>>, contacted |-> i - 1]
    ELSE IF answers[i].kind = "ok"
         THEN [raised |-> FALSE, exc |-> "", ac |-> answers[i].ac, contacted |-> i]
         ELSE IF answers[i].kind = "status"
              THEN FetchFrom(answers, i + 1, last_exc)
              ELSE FetchFrom(answers, i + 1, answers[i].exc)

fetch_aircraft(answers) == FetchFrom(answers, 1, "")

ProviderFeeds == {<<>>, <<AcMid>>, <<AcAnon, AcMid>>}

AnswersOf(base) ==
    {Raised(base), BadBody(base), NotOk} \cup {Ok(acs) : acs \in ProviderFeeds}

ProviderAnswers ==
    {q \in [1..Len(PROVIDERS) -> UNION {AnswersOf(PROVIDERS[i]) : i \in 1..Len(PROVIDERS)}] :
        \A i \in 1..Len(PROVIDERS) : q[i] \in AnswersOf(PROVIDERS[i])}

\* Seconds between two invocations of main (cron); time is counted from the
\* first invocation
Deltas == {1, 599, 600, 601}

ShortDeltas == {1, 600}

\* Seconds between the start of main, or the previous point's run, and the
\* reading of the clock by run_once_for
NoDrift == {0}

\* What state.json may hold when a run starts, the first run being at time
\* 0: nothing, no JSON, a JSON array, or an object giving some of the keys a
\* UTC time a quiet period ago or a second ago, that second with an offset of
\* one hour or with no offset, a text that is no date, or no text
StoreKeys == {"Isernia:4CA123", "Isernia:UNKNOWN", "San Salvo:4CA123"}

StoreValues ==
    {IsoText(0 - QUIET_MINUTES * 60, "+00:00"), IsoText(0 - 1, "+00:00"),
     IsoText(3600 - 1, "+01:00"), IsoText(0 - 1, ""), GarbageText, NotText}

StoreFiles ==
    {MissingFile, CorruptFile, ArrayFile}
    \cup {JsonFile(e) : e \in UNION {[K -> StoreValues] : K \in SUBSET StoreKeys}}

----------------------------------------------------------------------------

(* The state machine *)

Place == locations[loc]

Init ==
    /\ locations = <<"Isernia">>
    /\ file = MissingFile
    /\ now = 0
    /\ pc = "idle"
    /\ loc = 1
    /\ state = NoEntries
    /\ aircraft = <<>>
    /\ eligible = <<>>
    /\ idx = 1
    /\ alerted = 0
    /\ sent = <<>>
    /\ saved = "none"
    /\ invocations = 0
    /\ alertLog = NoEntries
    /\ failLog = {}
    /\ saveFailed = FALSE
    /\ caught = <<>>
    /\ fetchLog = <<>>

\* main starts, deltas seconds after it last did: the loop over LOCATIONS
MainStart(deltas) ==
    /\ pc = "idle"
    /\ invocations < MaxInvocations
    /\ invocations' = invocations + 1
    /\ \E d \in (IF invocations = 0 THEN {0} ELSE deltas) : now' = now + d
    /\ loc' = 1
    /\ pc' = "run"
    /\ caught' = <<>>
    /\ UNCHANGED <<locations, file, state, aircraft, eligible, idx, alerted,
                   sent, saved, alertLog, failLog, saveFailed,
                   fetchLog>>

\* run_once_for returns (its locals are gone) and main moves to the next point
AfterRun ==
    /\ state' = NoEntries
    /\ aircraft' = <<>>
    /\ eligible' = <<>>
    /\ idx' = 1
    /\ alerted' = 0
    /\ IF loc < Len(locations)
       THEN loc' = loc + 1 /\ pc' = "run"
       ELSE loc' = loc /\ pc' = "idle"

\* run_once_for is entered: the clock is read, nothing is sent or saved yet
RunEnter(d) ==
    /\ pc = "run"
    /\ now' = now + d
    /\ sent' = <<>>
    /\ saved' = "none"

\* Faulty variant: the failed fetch is taken for an empty list and the
\* loaded state is saved
RunFetchFail_Saves(drift) ==
    /\ pc = "run"
    /\ \E d \in drift : now' = now + d
    /\ sent' = <<>>
    /\ saved' = "ok"
    /\ file' = Dumped(load_state(file))
    /\ AfterRun
    /\ UNCHANGED <<locations, invocations, alertLog, failLog, saveFailed,
                   caught, fetchLog>>

\* load_state, then fetch_aircraft raises: the point's cycle is skipped
RunFetchFail(drift) ==
    /\ \E d \in drift : RunEnter(d)
    /\ AfterRun
    /\ UNCHANGED <<locations, file, invocations, alertLog, failLog, saveFailed,
                   caught, fetchLog>>

\* load_state, then fetch_aircraft returns a list
RunFetch(results, drift) ==
    /\ \E d \in drift : RunEnter(d)
    /\ state' = load_state(file)
    /\ \E acs \in results : aircraft' = acs
    /\ eligible' = <<>>
    /\ idx' = 1
    /\ alerted' = 0
    /\ pc' = "filter"
    /\ UNCHANGED <<locations, file, loc, invocations, alertLog, failLog, saveFailed,
                   caught, fetchLog>>

\* load_state, then fetch_aircraft over the providers' answers
RunProviders(answerSets, drift) ==
    \E answers \in answerSets :
        LET r == fetch_aircraft(answers)
        IN  /\ \E d \in drift : RunEnter(d)
            /\ fetchLog' = [answers |-> answers, result |-> r]
            /\ IF r.raised
               THEN /\ AfterRun
                    /\ UNCHANGED <<locations, file, invocations, alertLog, failLog,
                                   saveFailed, caught>>
               ELSE /\ state' = load_state(file)
                    /\ aircraft' = r.ac
                    /\ eligible' = <<>>
                    /\ idx' = 1
                    /\ alerted' = 0
                    /\ pc' = "filter"
                    /\ UNCHANGED <<locations, file, loc, invocations, alertLog,
                                   failLog, saveFailed, caught>>

\* step 1: filter and sort
Filter ==
    /\ pc = "filter"
    /\ eligible' = EligibleList(aircraft, CenterLat(Place), CenterLon(Place))
    /\ pc' = "decide"
    /\ UNCHANGED <<locations, file, now, loc, state, aircraft, idx, alerted, sent,
                   saved, invocations, alertLog, failLog, saveFailed,
                   caught, fetchLog>>

\* step 2, one turn of the loop: within the quiet period, continue
DecideSkip ==
    /\ pc = "decide"
    /\ idx <= Len(eligible)
    /\ ~Raises(state, ScopedKeyOf(Place, eligible[idx]), Utc(now))
    /\ Suppressed(state, ScopedKeyOf(Place, eligible[idx]), Utc(now))
    /\ idx' = idx + 1
    /\ UNCHANGED <<locations, file, now, pc, loc, state, aircraft, eligible, alerted,
                   sent, saved, invocations, alertLog, failLog, saveFailed,
                   caught, fetchLog>>

\* Faulty variant: nothing catches the exception, main ends where it is
DecideRaise_Uncaught ==
    /\ pc = "decide"
    /\ idx <= Len(eligible)
    /\ Raises(state, ScopedKeyOf(Place, eligible[idx]), Utc(now))
    /\ state' = NoEntries
    /\ aircraft' = <<>>
    /\ eligible' = <<>>
    /\ idx' = 1
    /\ alerted' = 0
    /\ pc' = "idle"
    /\ UNCHANGED <<locations, file, now, loc, sent, saved, invocations, alertLog,
                   failLog, saveFailed, caught, fetchLog>>

\* step 2, one turn of the loop: now - last raises.  The exception leaves
\* run_once_for before save_state; the except clause of main prints it and
\* the loop over LOCATIONS goes on.
DecideRaise ==
    /\ pc = "decide"
    /\ idx <= Len(eligible)
    /\ Raises(state, ScopedKeyOf(Place, eligible[idx]), Utc(now))
    /\ caught' = Append(caught, Place)
    /\ AfterRun
    /\ UNCHANGED <<locations, file, now, sent, saved, invocations, alertLog,
                   failLog, saveFailed, fetchLog>>

Logged(log, k, t) ==
    [x \in DOMAIN log \cup {k} |->
        IF x = k THEN (IF k \in DOMAIN log THEN Append(log[k], t) ELSE <<t>>)
        ELSE log[x]]

\* step 2, one turn of the loop: send the individual alert, then record it
DecideAlert(outcomes) ==
    /\ pc = "decide"
    /\ idx <= Len(eligible)
    /\ LET k == ScopedKeyOf(Place, eligible[idx])
       IN  /\ ~Raises(state, k, Utc(now))
           /\ ~Suppressed(state, k, Utc(now))
           /\ \E o \in outcomes :
                 /\ sent' = Append(sent, AlertNote(k, eligible[idx], Place, o))
                 /\ state' = StateAfterSend(state, k, Utc(now), o)
                 /\ alerted' = AlertedAfterSend(alerted, o)
                 /\ failLog' = IF DeliveryFailed(o) THEN failLog \cup {<<k, now>>}
                               ELSE failLog
           /\ alertLog' = Logged(alertLog, k, now)
    /\ idx' = idx + 1
    /\ UNCHANGED <<locations, file, now, pc, loc, aircraft, eligible, saved,
                   invocations, saveFailed,
                   caught, fetchLog>>

\* step 3: nothing was alerted but aircraft are there
Summary(outcomes) ==
    /\ pc = "decide"
    /\ idx > Len(eligible)
    /\ SummaryDue(alerted, eligible)
    /\ \E o \in outcomes : sent' = Append(sent, SummaryNote(eligible, o))
    /\ pc' = "save"
    /\ UNCHANGED <<locations, file, now, loc, state, aircraft, eligible, idx, alerted,
                   saved, invocations, alertLog, failLog, saveFailed,
                   caught, fetchLog>>

NoSummary ==
    /\ pc = "decide"
    /\ idx > Len(eligible)
    /\ ~SummaryDue(alerted, eligible)
    /\ pc' = "save"
    /\ UNCHANGED <<locations, file, now, loc, state, aircraft, eligible, idx, alerted,
                   sent, saved, invocations, alertLog, failLog, saveFailed,
                   caught, fetchLog>>

\* save_state(state), and the return to main
SaveState ==
    /\ pc = "save"
    /\ \E res \in SaveResults :
          /\ file' = save_state(file, state, res)
          /\ saved' = res
          /\ saveFailed' = (saveFailed \/ res # "ok")
    /\ AfterRun
    /\ UNCHANGED <<locations, now, sent, invocations, alertLog, failLog,
                   caught, fetchLog>>

----------------------------------------------------------------------------
(* Spec: the monitor as configured, over feeds of the catalogue *)

Next ==
    \/ MainStart(Deltas)
    \/ RunFetchFail(NoDrift)
    \/ RunFetch(FetchResults, NoDrift)
    \/ Filter
    \/ DecideSkip
    \/ DecideAlert(AllDelivered)
    \/ Summary(AllDelivered)
    \/ NoSummary
    \/ SaveState

Spec == Init /\ [][Next]_vars

----------------------------------------------------------------------------
(* SpecNotify: two aircraft, every outcome of send_telegram *)

NextNotify ==
    \/ MainStart(ShortDeltas)
    \/ RunFetch(NotifyFeeds, NoDrift)
    \/ Filter
    \/ DecideSkip
    \/ DecideAlert(SendOutcomes)
    \/ Summary(SendOutcomes)
    \/ NoSummary
    \/ SaveState

SpecNotify == Init /\ [][NextNotify]_vars

----------------------------------------------------------------------------
(* SpecSummary: long feeds *)

NextSummary ==
    \/ MainStart(ShortDeltas)
    \/ RunFetch(SummaryFeeds, NoDrift)
    \/ Filter
    \/ DecideSkip
    \/ DecideAlert(AllDelivered)
    \/ Summary(AllDelivered)
    \/ NoSummary
    \/ SaveState

SpecSummary == Init /\ [][NextSummary]_vars

----------------------------------------------------------------------------
(* SpecFilter: the eligibility filter on its own, from the state in which   *)
(* the first run of either point has fetched a feed                         *)

InitFilter ==
    /\ locations \in {<<"Isernia">>, <<"San Salvo">>}
    /\ file = MissingFile
    /\ now = 0
    /\ pc = "filter"
    /\ loc = 1
    /\ state = NoEntries
    /\ aircraft \in FilterFeeds
    /\ eligible = <<>>
    /\ idx = 1
    /\ alerted = 0
    /\ sent = <<>>
    /\ saved = "none"
    /\ invocations = 1
    /\ alertLog = NoEntries
    /\ failLog = {}
    /\ saveFailed = FALSE
    /\ caught = <<>>
    /\ fetchLog = <<>>

NextFilter == Filter

SpecFilter == InitFilter /\ [][NextFilter]_vars

----------------------------------------------------------------------------
(* SpecPoints: two monitoring points, San Salvo first (the entry of         *)
(* LOCATIONS that is commented out), over a state file that is missing or   *)
(* holds a timestamp without offset for San Salvo.  main runs to its end    *)
(* once started: every step of it that can be taken is taken.               *)

NaiveFile ==
    JsonFile([k \in {"San Salvo:UNKNOWN"} |-> IsoText(0 - 1, "")])

InitPoints ==
    /\ locations = <<"San Salvo", "Isernia">>
    /\ file \in {MissingFile, NaiveFile}
    /\ now = 0
    /\ pc = "idle"
    /\ loc = 1
    /\ state = NoEntries
    /\ aircraft = <<>>
    /\ eligible = <<>>
    /\ idx = 1
    /\ alerted = 0
    /\ sent = <<>>
    /\ saved = "none"
    /\ invocations = 0
    /\ alertLog = NoEntries
    /\ failLog = {}
    /\ saveFailed = FALSE
    /\ caught = <<>>
    /\ fetchLog = <<>>

NextPoints ==
    \/ MainStart(ShortDeltas)
    \/ RunFetchFail(NoDrift)
    \/ RunFetch(PointFeeds, NoDrift)
    \/ Filter
    \/ DecideSkip
    \/ DecideAlert(AllDelivered)
    \/ DecideRaise
    \/ Summary(AllDelivered)
    \/ NoSummary
    \/ SaveState

SpecPoints == InitPoints /\ [][NextPoints]_vars /\ WF_vars(NextPoints)

----------------------------------------------------------------------------
(* SpecFetch: the fetch made of the answers of the two providers *)

NextFetch ==
    \/ MainStart(ShortDeltas)
    \/ RunProviders(ProviderAnswers, NoDrift)
    \/ Filter
    \/ DecideSkip
    \/ DecideAlert(AllDelivered)
    \/ Summary(AllDelivered)
    \/ NoSummary
    \/ SaveState

SpecFetch == Init /\ [][NextFetch]_vars

----------------------------------------------------------------------------
(* SpecTelegram: send_telegram recipient by recipient *)

NextTelegram ==
    \/ MainStart(ShortDeltas)
    \/ RunFetch(TelegramFeeds, NoDrift)
    \/ Filter
    \/ DecideSkip
    \/ DecideAlert(TelegramOutcomes)
    \/ Summary(TelegramOutcomes)
    \/ NoSummary
    \/ SaveState

SpecTelegram == Init /\ [][NextTelegram]_vars

----------------------------------------------------------------------------
(* SpecStore: the monitor started on any content of state.json *)

InitStore ==
    /\ locations = <<"Isernia">>
    /\ file \in StoreFiles
    /\ now = 0
    /\ pc = "idle"
    /\ loc = 1
    /\ state = NoEntries
    /\ aircraft = <<>>
    /\ eligible = <<>>
    /\ idx = 1
    /\ alerted = 0
    /\ sent = <<>>
    /\ saved = "none"
    /\ invocations = 0
    /\ alertLog = NoEntries
    /\ failLog = {}
    /\ saveFailed = FALSE
    /\ caught = <<>>
    /\ fetchLog = <<>>

NextStore ==
    \/ MainStart(ShortDeltas)
    \/ RunFetch(NotifyFeeds, NoDrift)
    \/ Filter
    \/ DecideSkip
    \/ DecideAlert(AllDelivered)
    \/ DecideRaise
    \/ Summary(AllDelivered)
    \/ NoSummary
    \/ SaveState

SpecStore == InitStore /\ [][NextStore]_vars

----------------------------------------------------------------------------
(* The claims *)

AlertNotes == {n \in 1..Len(sent) : sent[n].kind = "alert"}

SummaryNotes == {n \in 1..Len(sent) : sent[n].kind = "summary"}

\* The run has its eligible list: the decide loop, or all notifications done
InRun == pc \in {"decide", "save"}

KeyAt(i) == ScopedKeyOf(Place, eligible[i])

\* This step hands send_telegram an individual alert for the scoped key k
SelectedNow(k) ==
    /\ Len(sent') = Len(sent) + 1
    /\ sent'[Len(sent')].kind = "alert"
    /\ sent'[Len(sent')].key = k

\* C1: in a turn of the decide loop the aircraft is selected for an
\* individual alert if and only if the state holds no timestamp for its
\* scoped key or now - lastAlert >= the quiet period (so 599 s after the last
\* alert it is suppressed and 601 s after it is alerted); a suppressed
\* aircraft sends nothing.
C1_QuietRule ==
    [][ (pc = "decide" /\ idx <= Len(eligible)) =>
          LET k == KeyAt(idx)
          IN  /\ SelectedNow(k) <=>
                   (k \notin DOMAIN state \/ now - state[k].t >= QUIET_MINUTES * 60)
              /\ (~SelectedNow(k) => sent' = sent)
              /\ (k \in DOMAIN state /\ now - state[k].t = QUIET_MINUTES * 60 - 1
                    => ~SelectedNow(k))
              /\ (k \in DOMAIN state /\ now - state[k].t = QUIET_MINUTES * 60 + 1
                    => SelectedNow(k)) ]_vars

\* C1 witness: the nearest aircraft, last alerted quiet - 1 s ago, has just
\* been passed over by the decide loop
C1_Witness ==
    /\ pc = "decide"
    /\ idx = 2
    /\ sent = <<>>
    /\ KeyAt(1) \in DOMAIN state
    /\ now - state[KeyAt(1)].t = QUIET_MINUTES * 60 - 1

\* C2: as long as every save_state wrote the file, two individual alerts for
\* one scoped key are at least the quiet period apart.
C2_AlertsApart ==
    ~saveFailed =>
        \A k \in DOMAIN alertLog :
            \A i, j \in 1..Len(alertLog[k]) :
                i < j => alertLog[k][j] - alertLog[k][i] >= QUIET_MINUTES * 60

\* C2 witness: a scoped key alerted in two runs, every save having succeeded
C2_Witness ==
    /\ ~saveFailed
    /\ pc = "idle"
    /\ \E k \in DOMAIN alertLog : Len(alertLog[k]) >= 2

\* C3: of the entries of the eligible list that map to one identity key, only
\* the first in distance order can have an individual alert in the run, and
\* the run sends at most one alert for the key.
C3_FirstOfKeyOnly ==
    InRun =>
        \A n \in AlertNotes :
            /\ \E i \in 1..Len(eligible) :
                  /\ sent[n].about = eligible[i]
                  /\ KeyAt(i) = sent[n].key
                  /\ \A h \in 1..(i - 1) : KeyAt(h) # KeyAt(i)
            /\ \A m \in AlertNotes : sent[m].key = sent[n].key => m = n

\* C3 witness: two entries with one key, the loop past both, the first
\* alerted and the second not
C3_Witness ==
    /\ pc = "save"
    /\ \E i, j \in 1..Len(eligible) :
          /\ i < j
          /\ KeyAt(i) = KeyAt(j)
          /\ \E n \in AlertNotes : sent[n].about = eligible[i]
          /\ \A n \in AlertNotes : sent[n].about # eligible[j]

\* C4: a run sends at most one summary, never together with an individual
\* alert, and once all its notifications are out it has sent a summary if and
\* only if the eligible list is non-empty and no individual alert fired.
C4_SummaryIff ==
    /\ Cardinality(SummaryNotes) <= 1
    /\ (SummaryNotes # {} => AlertNotes = {})
    /\ (pc = "save" =>
          (SummaryNotes # {} <=> (Len(eligible) > 0 /\ AlertNotes = {})))

\* C4 witness: a run that fetched an ineligible aircraft too and sent the
\* summary
C4_Witness ==
    /\ pc = "save"
    /\ SummaryNotes # {}
    /\ Len(aircraft) > Len(eligible)

\* C5: the summary reports the count n of the eligible list, lists exactly
\* its first min(6, n) entries in distance order, and carries the remainder
\* line if and only if n > 6, with N = n - 6.
C5_SummaryContent ==
    pc = "save" =>
        \A n \in SummaryNotes :
            LET t == sent[n].text
                cnt == Len(eligible)
                shown == IF cnt < 6 THEN cnt ELSE 6
            IN  /\ t.count = cnt
                /\ Len(t.lines) = shown
                /\ \A j \in 1..shown :
                      /\ t.lines[j].label = identify(eligible[j].ac)[1]
                      /\ t.lines[j].dist_km = eligible[j].dist_km
                /\ (t.hasOthers <=> cnt > 6)
                /\ (t.hasOthers => t.others = cnt - 6)

\* C5 witness: a summary for eight aircraft, all suppressed, whose seventh
\* is not the one listed sixth
C5_Witness ==
    /\ pc = "save"
    /\ Len(eligible) = 8
    /\ \E n \in SummaryNotes :
          /\ sent[n].text.hasOthers
          /\ sent[n].text.others = 2
          /\ sent[n].text.lines[6].label # identify(eligible[7].ac)[1]

C7_FailedDeliveryCounts ==
    /\ \A n \in AlertNotes :
          (sent[n].outcome.configured /\ sent[n].outcome.failed # {}) =>
             /\ InRun => /\ sent[n].key \in DOMAIN state
                         /\ state[sent[n].key].t = now
                         /\ alerted >= 1
             /\ SummaryNotes = {}
             /\ (saved = "ok" /\ pc = "idle") =>
                   /\ file.kind = "json"
                   /\ sent[n].key \in DOMAIN file.entries
                   /\ file.entries[sent[n].key].shape = "iso"
                   /\ file.entries[sent[n].key].t = now
    /\ ~saveFailed =>
          \A f \in failLog :
              \A j \in 1..Len(alertLog[f[1]]) :
                  ~(f[2] < alertLog[f[1]][j]
                      /\ alertLog[f[1]][j] < f[2] + QUIET_MINUTES * 60)

\* C7 witness: the next run, inside the quiet period of an alert that no
\* recipient received, has passed the aircraft over
C7_Witness ==
    /\ pc = "decide"
    /\ idx = 2
    /\ sent = <<>>
    /\ ~saveFailed
    /\ \E f \in failLog :
          /\ f[1] = KeyAt(1)
          /\ f[2] < now
          /\ now - f[2] < QUIET_MINUTES * 60

\* What the claims C8 and C10 say of one fetched snapshot
InEligible(ac) == \E i \in 1..Len(eligible) : eligible[i].ac = ac

DistanceOf(ac) == haversine_km(CenterLat(Place), CenterLon(Place), ac.lat.n, ac.lon.n)

\* C8: a fetched snapshot is in the eligible list if and only if its latitude
\* and longitude are both non-null, its distance is <= radius + 0.5 km and its
\* altitude in metres is non-null and strictly below the threshold.
C8_Eligibility ==
    pc = "decide" =>
        \A j \in 1..Len(aircraft) :
            LET ac == aircraft[j]
            IN  InEligible(ac) <=>
                  /\ ac.lat.k # "absent"
                  /\ ac.lon.k # "absent"
                  /\ DistanceOf(ac) <= RADIUS_KM * 10 + 5
                  /\ get_altitude_m(ac).k # "absent"
                  /\ get_altitude_m(ac).n < ALT_THRESHOLD_M * 10000

\* C8 witness: one snapshot at radius + 0.5 km exactly is in the list, one at
\* the altitude threshold exactly, well inside the radius, is not
C8_Witness ==
    /\ pc = "decide"
    /\ \E i \in 1..Len(eligible) : eligible[i].dist_km = RADIUS_KM * 10 + 5
    /\ \E j \in 1..Len(aircraft) :
          /\ ~InEligible(aircraft[j])
          /\ aircraft[j].lat.k # "absent"
          /\ aircraft[j].lon.k # "absent"
          /\ DistanceOf(aircraft[j]) < RADIUS_KM * 10
          /\ get_altitude_m(aircraft[j]).k # "absent"
          /\ get_altitude_m(aircraft[j]).n = ALT_THRESHOLD_M * 10000

\* C9: the eligible list is sorted non-decreasing by distance, the individual
\* alerts of a run go out nearest first, and the aircraft a summary takes as
\* nearest is an eligible one of minimum distance.
C9_NearestFirst ==
    /\ InRun => \A i, j \in 1..Len(eligible) :
                    i < j => eligible[i].dist_km <= eligible[j].dist_km
    /\ \A m, n \in AlertNotes :
          m < n => sent[m].about.dist_km <= sent[n].about.dist_km
    /\ InRun => \A n \in SummaryNotes :
                    /\ \E i \in 1..Len(eligible) : eligible[i] = sent[n].about
                    /\ \A i \in 1..Len(eligible) :
                          sent[n].about.dist_km <= eligible[i].dist_km

\* C9 witness: a feed that came farthest first, both aircraft alerted
C9_Witness ==
    /\ pc = "save"
    /\ Len(aircraft) = 2
    /\ DistanceOf(aircraft[1]) > DistanceOf(aircraft[2])
    /\ Cardinality(AlertNotes) = 2
    /\ sent[1].about.dist_km < sent[2].about.dist_km

\* C10 as stated: the altitude of an eligible aircraft is the barometric
\* field whenever that field is present, the geometric one only when the
\* barometric one is not present, and a snapshot with neither is discarded.
C10_Original ==
    pc = "decide" =>
        /\ \A i \in 1..Len(eligible) :
              LET ac == eligible[i].ac
              IN  /\ ac.alt_baro.k # "absent" =>
                        /\ ac.alt_baro.k \in {"num", "bool"}
                        /\ eligible[i].alt_m = feet_to_m(ac.alt_baro.n)
                  /\ ac.alt_baro.k = "absent" =>
                        /\ ac.alt_geom.k \in {"num", "bool"}
                        /\ eligible[i].alt_m = feet_to_m(ac.alt_geom.n)
        /\ \A j \in 1..Len(aircraft) :
              (aircraft[j].alt_baro.k = "absent" /\ aircraft[j].alt_geom.k = "absent")
                 => ~InEligible(aircraft[j])

\* C10, amended: the altitude of an eligible aircraft is the barometric field
\* whenever that field is a number, the geometric one only when the
\* barometric one is not a number and the geometric one is, and a snapshot
\* with no number in either field is discarded.
C10_NumericPrecedence ==
    pc = "decide" =>
        /\ \A i \in 1..Len(eligible) :
              LET ac == eligible[i].ac
              IN  IF ac.alt_baro.k \in {"num", "bool"}
                  THEN eligible[i].alt_m = feet_to_m(ac.alt_baro.n)
                  ELSE /\ ac.alt_geom.k \in {"num", "bool"}
                       /\ eligible[i].alt_m = feet_to_m(ac.alt_geom.n)
        /\ \A j \in 1..Len(aircraft) :
              (aircraft[j].alt_baro.k \notin {"num", "bool"}
                 /\ aircraft[j].alt_geom.k \notin {"num", "bool"})
                 => ~InEligible(aircraft[j])

\* C10 witness: a snapshot whose barometric altitude is text is eligible on
\* its geometric altitude
C10_Witness ==
    /\ pc = "decide"
    /\ \E i \in 1..Len(eligible) :
          /\ eligible[i].ac.alt_baro.k = "text"
          /\ eligible[i].ac.alt_geom.k = "num"
          /\ eligible[i].alt_m = feet_to_m(eligible[i].ac.alt_geom.n)

\* C11: whatever state.json holds, a run whose fetch succeeded is not
\* aborted by the state: from the decide loop it goes on in the loop or to
\* save_state.
C11_NeverAborts ==
    [][ pc = "decide" => pc' \in {"decide", "save"} ]_vars

\* C12: load_state returns the empty mapping when the file is missing, is no
\* JSON or is no JSON object, and otherwise exactly the entries whose value
\* is an ISO-8601 text, each with the time and the offset of its text.
C12_LoadState ==
    pc = "filter" =>
        /\ file.kind \in {"missing", "corrupt", "array"} => state = <<>>
        /\ file.kind = "json" =>
              /\ DOMAIN state = {k \in DOMAIN file.entries : file.entries[k].shape = "iso"}
              /\ \A k \in DOMAIN state :
                    /\ state[k].t = file.entries[k].t
                    /\ state[k].aware = (file.entries[k].offset # "")
                    /\ state[k].off = (IF file.entries[k].offset = "+01:00" THEN 3600 ELSE 0)

\* C12 witness: a file with a text that is no date and a value that is no
\* text has been loaded; two other entries are in the state
C12_Witness ==
    /\ pc = "filter"
    /\ file.kind = "json"
    /\ \E a, b \in DOMAIN file.entries :
          /\ file.entries[a].shape = "garbage"
          /\ file.entries[b].shape = "nottext"
          /\ a \notin DOMAIN state
          /\ b \notin DOMAIN state
    /\ Cardinality(DOMAIN state) = 1

\* C13: when save_state wrote the file, loading the file gives back the
\* state that was saved: the same keys, each with a timestamp equal to the
\* saved one (the same instant), and so for the UTC timestamps the runs
\* record.
C13_RoundTrip ==
    [][ (pc = "save" /\ saved' = "ok") =>
          LET back == load_state(file')
          IN  /\ DOMAIN back = DOMAIN state
              /\ \A k \in DOMAIN state :
                    /\ back[k].aware = state[k].aware
                    /\ back[k].t - back[k].off = state[k].t - state[k].off ]_vars

\* C13 witness: the second invocation has loaded what the first one saved,
\* the timestamp of its alert at time 0 among it
C13_Witness ==
    /\ pc = "filter"
    /\ invocations = 2
    /\ ~saveFailed
    /\ now > 0
    /\ Cardinality(DOMAIN state) >= 2
    /\ \E k \in DOMAIN state : state[k] = [t |-> 0, aware |-> TRUE, off |-> 0]

\* C14: an invocation of main starts at the first configured point; the end
\* of a point's run, normal or by an exception or a failed fetch, moves to
\* the next point in order and, after the last one only, ends the
\* invocation; every started invocation reaches the last point and ends.
C14_EveryPoint ==
    /\ [][ /\ (pc = "idle" /\ pc' # "idle") => (pc' = "run" /\ loc' = 1)
           /\ (pc # "idle" /\ loc' # loc) => (loc' = loc + 1 /\ pc' = "run")
           /\ (pc # "idle" /\ pc' = "run") => loc' = loc + 1
           /\ (pc # "idle" /\ pc' = "idle") => loc = Len(locations) ]_vars
    /\ (pc = "run" /\ loc = 1) ~> (pc = "run" /\ loc = Len(locations))
    /\ (pc # "idle") ~> (pc = "idle")

\* C14 witness: main caught the exception of San Salvo's run and the run of
\* Isernia, the next point, has sent its alerts
C14_Witness ==
    /\ Len(locations) = 2
    /\ caught = <<"San Salvo">>
    /\ loc = 2
    /\ pc = "save"
    /\ AlertNotes # {}

\* C15: the step of a run whose fetch fails sends nothing, leaves the state
\* file as it is without calling save_state, records no alert, raises
\* nothing to main and hands over to the next point or ends the invocation.
C15_FetchFailureSkips ==
    [][ (pc = "run" /\ pc' # "filter") =>
          /\ file' = file
          /\ sent' = <<>>
          /\ saved' = "none"
          /\ alertLog' = alertLog
          /\ caught' = caught
          /\ state' = <<>>
          /\ (IF loc < Len(locations) THEN pc' = "run" /\ loc' = loc + 1
                                      ELSE pc' = "idle") ]_vars

\* C15 witness: the fetch of the second invocation failed; the file still
\* holds what the first invocation saved
C15_Witness ==
    /\ pc = "idle"
    /\ invocations = 2
    /\ saved = "none"
    /\ sent = <<>>
    /\ file.kind = "json"
    /\ DOMAIN file.entries # {}

\* C16: the providers are contacted in order up to the first that succeeds,
\* whose list is the result; the fetch fails for the point if and only if
\* every provider failed, by raising or by a status that is not 200, and a
\* run goes on to its filter only with the list of a provider that succeeded.
C16_FirstSuccessOrFailure ==
    fetchLog # <<>> =>
        LET a == fetchLog.answers
            r == fetchLog.result
            Succeeded == {i \in 1..Len(a) : a[i].kind = "ok"}
        IN  /\ \A i \in Succeeded :
                  (\A h \in 1..(i - 1) : h \notin Succeeded) =>
                     /\ ~r.raised
                     /\ r.ac = a[i].ac
                     /\ r.contacted = i
            /\ r.raised <=> Succeeded = {}
            /\ pc = "filter" => Succeeded # {}

\* C17: every call of send_telegram with a bot token attempts the delivery
\* for every recipient of the list, in list order, whatever failed for the
\* recipients before; a failed primary message only skips that recipient's
\* links message; and the caller goes on after the call: the alert is
\* recorded and counted, main catches nothing.
C17_PerRecipient ==
    /\ \A n \in 1..Len(sent) :
          LET o == sent[n].outcome
          IN  o.configured =>
                /\ Len(o.attempts) = Len(o.chat_ids)
                /\ \A j \in 1..Len(o.chat_ids) :
                      /\ o.attempts[j].cid = o.chat_ids[j]
                      /\ o.attempts[j].primary \in {"sent", "failed"}
                      /\ (o.attempts[j].primary = "sent" => o.attempts[j].links # "skipped")
                /\ \A i, j \in 1..Len(o.chat_ids) : i # j => o.chat_ids[i] # o.chat_ids[j]
                /\ \E j \in 1..Len(o.chat_ids) : o.chat_ids[j] = "5278987817"
    /\ InRun => /\ alerted = Cardinality(AlertNotes)
                /\ \A n \in AlertNotes : sent[n].key \in DOMAIN state
    /\ caught = <<>>

\* C17 witness: an alert whose first recipient failed at the primary
\* message and whose second failed at the links message; the third got both
C17_Witness ==
    /\ InRun
    /\ \E n \in AlertNotes :
          /\ Len(sent[n].outcome.attempts) = 3
          /\ sent[n].outcome.attempts[1].primary = "failed"
          /\ sent[n].outcome.attempts[2].links = "failed"
          /\ sent[n].outcome.attempts[3].links = "sent"

\* C18: in a turn of the decide loop at a point, an aircraft with no
\* timestamp recorded for the pair (this point, its identity key) is alerted,
\* whatever is recorded for the same identity key at another point, and the
\* alert is recorded for this pair.
C18_ScopedToPoint ==
    [][ (pc = "decide" /\ idx <= Len(eligible)) =>
          LET own == Place \o ":" \o identify(eligible[idx].ac)[2]
          IN  own \notin DOMAIN state =>
                /\ SelectedNow(own)
                /\ own \in DOMAIN state'
                /\ \A k \in DOMAIN state : state'[k] = state[k] ]_vars

\* C18 witness: the aircraft alerted at San Salvo in this invocation has
\* been alerted at Isernia too
C18_Witness ==
    /\ InRun
    /\ Place = "Isernia"
    /\ "San Salvo:UNKNOWN" \in DOMAIN state
    /\ state["San Salvo:UNKNOWN"].aware
    /\ state["San Salvo:UNKNOWN"].t = now
    /\ \E n \in AlertNotes : sent[n].key = "Isernia:UNKNOWN"

\* C19: during a run the state is the loaded state with state[key] = now
\* for the scoped keys of the run's individual alerts and nothing else
\* changed: no entry removed, every other entry with its loaded timestamp,
\* also when the run's notification is a summary.
C19_OnlyAlertedKeys ==
    InRun =>
        LET loaded == load_state(file)
            alertedKeys == {sent[n].key : n \in AlertNotes}
        IN  /\ DOMAIN state = DOMAIN loaded \cup alertedKeys
            /\ \A k \in DOMAIN state :
                  IF k \in alertedKeys
                  THEN state[k] = [t |-> now, aware |-> TRUE, off |-> 0]
                  ELSE state[k] = loaded[k]

\* C19 witness: a run that alerted one aircraft, passed over another one
\* within its quiet period, and holds an entry of the other point
C19_Witness ==
    /\ pc = "save"
    /\ Place = "Isernia"
    /\ \E i, j \in 1..Len(eligible) :
          /\ state[KeyAt(i)].t = now
          /\ state[KeyAt(j)].t < now
          /\ now - state[KeyAt(j)].t < QUIET_MINUTES * 60
    /\ "San Salvo:UNKNOWN" \in DOMAIN state
    /\ state["San Salvo:UNKNOWN"].aware
    /\ state["San Salvo:UNKNOWN"].t < now

\* C20: a run whose fetch succeeded ends only after save_state was
\* executed, and when the write succeeded the file holds state[key] = now
\* for every individual alert of the run.
C20_SavedAtEnd ==
    [][ (pc \in {"filter", "decide", "save"} /\ pc' \in {"idle", "run"}) =>
          /\ pc = "save"
          /\ saved = "none"
          /\ saved' # "none"
          /\ saved' = "ok" =>
                \A n \in AlertNotes :
                    /\ sent[n].key \in DOMAIN file'.entries
                    /\ file'.entries[sent[n].key].t = now ]_vars

====
